---- MODULE Spec2Model ----
(***************************************************************************)
(* Model of evolve/code_optimizations.py: the optimization registry, the   *)
(* candidate value, the Criterion evaluator and the two search strategies  *)
(* of CodeOptimizationEvolver (run_incremental, run_combinatorial).        *)
(*                                                                         *)
(* Numbers.  Fitness values and ratios are Python floats in the source.    *)
(* They are modelled as exact non-negative rationals in lowest terms, kept *)
(* as a pair of bags of prime factors (so that products such as            *)
(* 100 * 1.04 * 1.015 * ... stay representable).  The one place where the  *)
(* rounding of IEEE-754 addition decides an outcome, the sort key of       *)
(* run_combinatorial, is modelled with the doubles themselves (see FAdd).  *)
(***************************************************************************)
EXTENDS Bags, FiniteSets, Integers, Sequences, TLC

(***************************************************************************)
(* Bounds of the model (not program constants).                            *)
(***************************************************************************)
\* strategy calls made on one evolver
MaxRuns == 2
\* external benchmark invocations (subprocess.run) over the life of an
\* evolver that is called more than once
MaxBenchRuns == 5
\* largest max_combinations handed to run_combinatorial
MaxBudget == 2
\* external runs that do not start, are interrupted, time out or exit
\* non-zero, over the evolver's life
MaxFaults == 1
\* the last second the wall clock is followed to, counted from construction
MaxClock == 1
\* calls made of the evaluator's own methods, outside the strategies
MaxDirect == 1

(***************************************************************************)
(* Exact rational arithmetic.                                              *)
(***************************************************************************)
Min(a, b) == IF a <= b THEN a ELSE b

RECURSIVE GCD(_, _)
GCD(a, b) == IF b = 0 THEN a ELSE GCD(b, a % b)

\* the prime factors of n >= 1, with multiplicity
RECURSIVE Factor(_)
Factor(n) ==
  IF n = 1 THEN EmptyBag
  ELSE LET p == CHOOSE q \in 2..n :
                  /\ n % q = 0
                  /\ \A r \in 2..(q - 1) : n % r # 0
       IN SetToBag({p}) (+) Factor(n \div p)

\* the number a bag of factors stands for
RECURSIVE BagProd(_)
BagProd(b) ==
  IF b = EmptyBag THEN 1
  ELSE LET p == CHOOSE q \in BagToSet(b) : TRUE
       IN p * BagProd(b (-) SetToBag({p}))

QZero == [num |-> SetToBag({0}), den |-> EmptyBag]

\* a / b for a >= 0, b > 0
QMake(a, b) ==
  IF a = 0 THEN QZero
  ELSE LET g == GCD(a, b)
       IN [num |-> Factor(a \div g), den |-> Factor(b \div g)]

QInt(a) == QMake(a, 1)

\* the factors two bags share
BagCommon(x, y) ==
  [p \in BagToSet(x) \cap BagToSet(y) |-> Min(x[p], y[p])]

QMul(x, y) ==
  IF x = QZero \/ y = QZero THEN QZero
  ELSE LET n == x.num (+) y.num
           d == x.den (+) y.den
           c == BagCommon(n, d)
       IN [num |-> n (-) c, den |-> d (-) c]

QInv(x) == [num |-> x.den, den |-> x.num]

QAdd(x, y) ==
  QMake(BagProd(x.num) * BagProd(y.den) + BagProd(y.num) * BagProd(x.den),
        BagProd(x.den) * BagProd(y.den))

\* x > y
QGT(x, y) ==
  IF x = QZero THEN FALSE
  ELSE IF y = QZero THEN TRUE
  ELSE LET q == QMul(x, QInv(y))
       IN BagProd(q.num) > BagProd(q.den)

QGE(x, y) == x = y \/ QGT(x, y)

(***************************************************************************)
(* IEEE-754 doubles, for the sums of expected gains.  A double below 1/4   *)
(* is an integer number of units of 2^-59, kept in three limbs             *)
(* <<hi, mid, lo>> of 20 bits.  FAdd is float addition: the exact sum,     *)
(* rounded to 53 significant bits, ties to even.                           *)
(***************************************************************************)
Limb == 1048576

FZero == <<0, 0, 0>>

FCarry(hi, mid, lo) ==
  LET m == mid + (lo \div Limb)
  IN <<hi + (m \div Limb), m % Limb, lo % Limb>>

\* the spacing of doubles at the magnitude of the exact sum s
FQuantum(s) ==
  IF s[1] >= 65536 THEN 16
  ELSE IF s[1] >= 32768 THEN 8
  ELSE IF s[1] >= 16384 THEN 4
  ELSE IF s[1] >= 8192 THEN 2
  ELSE 1

FAdd(a, b) ==
  LET s  == FCarry(a[1] + b[1], a[2] + b[2], a[3] + b[3])
      q  == FQuantum(s)
      r  == s[3] % q
      up == 2 * r > q \/ (2 * r = q /\ (s[3] \div q) % 2 = 1)
  IN FCarry(s[1], s[2], s[3] - r + (IF up THEN q ELSE 0))

\* a < b
FLess(a, b) ==
  \/ a[1] < b[1]
  \/ a[1] = b[1] /\ a[2] < b[2]
  \/ a[1] = b[1] /\ a[2] = b[2] /\ a[3] < b[3]

\* the double a decimal literal of the registry denotes (thousandths |-> bits)
DoubleOf(milli) ==
  CASE milli = 15 -> <<7864, 335544, 335544>>
    [] milli = 25 -> <<13107, 209715, 209716>>
    [] milli = 30 -> <<15728, 671088, 671088>>
    [] milli = 40 -> <<20971, 545259, 545260>>

(***************************************************************************)
(* The registry.  A Python dict keeps insertion order, so the registry is  *)
(* a sequence of its values; expected_gain is in thousandths.              *)
(***************************************************************************)
CODE_OPTIMIZATIONS ==
  << [name |-> "opt-single-key-alloc", expected_gain |-> 40, priority |-> 0],
     [name |-> "opt-static-responses", expected_gain |-> 15, priority |-> 1],
     [name |-> "opt-zero-copy-get",    expected_gain |-> 25, priority |-> 2],
     [name |-> "opt-itoa-encode",      expected_gain |-> 15, priority |-> 3],
     [name |-> "opt-fxhash-routing",   expected_gain |-> 15, priority |-> 4],
     [name |-> "opt-atoi-parse",       expected_gain |-> 30, priority |-> 5] >>

\* the keys of CODE_OPTIMIZATIONS, in the order iteration yields them
RECURSIVE NamesOf(_)
NamesOf(registry) ==
  IF registry = <<>> THEN <<>>
  ELSE <<Head(registry).name>> \o NamesOf(Tail(registry))

RegistryNames == NamesOf(CODE_OPTIMIZATIONS)

RegistryNameSet == {CODE_OPTIMIZATIONS[j].name : j \in 1..Len(CODE_OPTIMIZATIONS)}

\* CODE_OPTIMIZATIONS[name]
Lookup(name) ==
  CODE_OPTIMIZATIONS[CHOOSE j \in 1..Len(CODE_OPTIMIZATIONS) :
                        CODE_OPTIMIZATIONS[j].name = name]

(***************************************************************************)
(* Insertion-ordered dicts name -> bool, as sequences of items.            *)
(***************************************************************************)
DictKeys(d) == {d[j].name : j \in 1..Len(d)}

DictGet(d, k) == d[CHOOSE j \in 1..Len(d) : d[j].name = k].on

\* a variant of DictSet: the other keys are reset to False
DictSetOnly(d, k, v) ==
  [j \in 1..Len(d) |-> [name |-> d[j].name, on |-> d[j].name = k /\ v]]

\* {**d, k: v}: an existing key keeps its place, a new one goes last
RECURSIVE DictSet(_, _, _)
DictSet(d, k, v) ==
  IF d = <<>> THEN <<[name |-> k, on |-> v]>>
  ELSE IF Head(d).name = k THEN <<[name |-> k, on |-> v]>> \o Tail(d)
  ELSE <<Head(d)>> \o DictSet(Tail(d), k, v)

\* {name: v for name in names}
RECURSIVE DictFromKeys(_, _)
DictFromKeys(names, v) ==
  IF names = <<>> THEN <<>>
  ELSE <<[name |-> Head(names), on |-> v]>> \o DictFromKeys(Tail(names), v)

(***************************************************************************)
(* OptimizationCandidate.                                                  *)
(***************************************************************************)
None == [none |-> TRUE]

Candidate(enabled, fitness, generation) ==
  [enabled |-> enabled, fitness |-> fitness, generation |-> generation]

RECURSIVE FlagsOf(_)
FlagsOf(d) ==
  IF d = <<>> THEN <<>>
  ELSE (IF Head(d).on THEN <<Head(d).name>> ELSE <<>>) \o FlagsOf(Tail(d))

feature_flags(c) == FlagsOf(c.enabled)

\* the running total of the loop: its bits as a double, and the real number
\* (in thousandths) those bits approximate
RECURSIVE GainOf(_, _)
GainOf(d, total) ==
  IF d = <<>> THEN total
  ELSE GainOf(Tail(d),
         IF Head(d).on /\ Head(d).name \in RegistryNameSet
         THEN [bits  |-> FAdd(total.bits, DoubleOf(Lookup(Head(d).name).expected_gain)),
               milli |-> total.milli + Lookup(Head(d).name).expected_gain]
         ELSE total)

expected_total_gain(c) == GainOf(c.enabled, [bits |-> FZero, milli |-> 0])

baseline == Candidate(DictFromKeys(RegistryNames, FALSE), None, 0)

all_enabled == Candidate(DictFromKeys(RegistryNames, TRUE), None, 0)

to_dict(c) ==
  [enabled |-> c.enabled, fitness |-> c.fitness, generation |-> c.generation,
   expected_gain |-> expected_total_gain(c)]

\* data["enabled"], data.get("fitness"), data.get("generation", 0): the
\* enabled map is taken as handed over, in its own key order
from_dict(data) ==
  Candidate(data.enabled,
            IF "fitness" \in DOMAIN data THEN data.fitness ELSE None,
            IF "generation" \in DOMAIN data THEN data.generation ELSE 0)

\* ",".join(flags)
RECURSIVE Join(_)
Join(flags) ==
  IF flags = <<>> THEN ""
  ELSE IF Len(flags) = 1 THEN flags[1]
  ELSE flags[1] \o "," \o Join(Tail(flags))

cargo_features(c) ==
  LET flags == feature_flags(c)
  IN IF flags # <<>> THEN Join(flags) ELSE ""

\* s.replace(pat, "")
RECURSIVE Remove(_, _)
Remove(s, pat) ==
  IF Len(s) < Len(pat) THEN s
  ELSE IF SubSeq(s, 1, Len(pat)) = pat
       THEN Remove(SubSeq(s, Len(pat) + 1, Len(s)), pat)
       ELSE SubSeq(s, 1, 1) \o Remove(SubSeq(s, 2, Len(s)), pat)

RECURSIVE JoinShort(_)
JoinShort(flags) ==
  IF flags = <<>> THEN ""
  ELSE IF Len(flags) = 1 THEN Remove(flags[1], "opt-")
  ELSE Remove(flags[1], "opt-") \o ", " \o JoinShort(Tail(flags))

\* f"[{', '.join(enabled) or 'baseline'}]": the fallback is taken when the
\* joined string is empty
summary(c) ==
  LET joined == JoinShort(feature_flags(c))
  IN "[" \o (IF joined # "" THEN joined ELSE "baseline") \o "]"

(***************************************************************************)
(* CriterionEvaluator.  One external run (subprocess.run of cargo bench)   *)
(* ends in one of five ways: the process cannot be started (subprocess.run *)
(* raises an OSError, FileNotFoundError when cargo is not on PATH), the    *)
(* program is interrupted while it waits for cargo (SIGINT: it raises      *)
(* KeyboardInterrupt), the 300 s timeout expires (it raises                *)
(* TimeoutExpired), cargo exits non-zero, or it exits zero and its output  *)
(* parses to a mapping benchmark -> nanoseconds.                           *)
(***************************************************************************)
SetDirect == "hot_paths/set_direct"
GetDirect == "hot_paths/get_direct"
Incr      == "hot_paths/incr"

\* the parsed reports the external tool is taken to produce
Reports ==
  { (SetDirect :> 6 @@ GetDirect :> 6 @@ Incr :> 6),
    (SetDirect :> 5 @@ GetDirect :> 6 @@ Incr :> 6),
    (SetDirect :> 5 @@ Incr :> 0),
    (SetDirect :> 8 @@ GetDirect :> 6 @@ Incr :> 6) }

EmptyDict == [b \in {} |-> 0]

Outcomes ==
  {[kind |-> "os_error"], [kind |-> "interrupt"], [kind |-> "timeout"],
   [kind |-> "exit_nonzero"]}
    \cup {[kind |-> "ok", report |-> r] : r \in Reports}

\* the exception subprocess.run(..., timeout=300) raises when the time is up
TimeoutExpired == "TimeoutExpired"

\* the exception subprocess.run raises when the program is not found
FileNotFoundError == "FileNotFoundError"

\* the exception subprocess.run raises when SIGINT arrives while it waits
KeyboardInterrupt == "KeyboardInterrupt"

\* the outcomes in which subprocess.run raises instead of returning
RaisingKinds == {"os_error", "interrupt", "timeout"}

\* _run_criterion_bench: what the call does with the run's outcome; it has
\* no handler, so what subprocess.run raises leaves it
run_criterion_bench(o) ==
  IF o.kind = "os_error" THEN [raised |-> TRUE, exc |-> FileNotFoundError]
  ELSE IF o.kind = "interrupt" THEN [raised |-> TRUE, exc |-> KeyboardInterrupt]
  ELSE IF o.kind = "timeout" THEN [raised |-> TRUE, exc |-> TimeoutExpired]
  ELSE IF o.kind = "exit_nonzero" THEN [raised |-> FALSE, results |-> EmptyDict]
  ELSE [raised |-> FALSE, results |-> o.report]

\* the entry one external run leaves in the log of runs
BenchEntry(call, what, features, o) ==
  [call |-> call, what |-> what, features |-> features, outcome |-> o.kind]

\* the ratio of one benchmark of the fresh run
RatioOf(bench, time_ns, bl) ==
  IF bench \in DOMAIN bl
  THEN (IF time_ns > 0 THEN QMake(bl[bench], time_ns) ELSE QInt(1))
  ELSE QInt(1)

\* the loop of evaluate over the fresh results
Relative(results, bl) ==
  [bench \in DOMAIN results |-> RatioOf(bench, results[bench], bl)]

\* evaluate(candidate) with the cached baseline bl (None when not captured);
\* o is the outcome of the candidate's run, ob of the baseline run should
\* evaluate have to capture it.  Gives the dict returned (or raised), the
\* cached baseline afterwards and the external runs made.
evaluate(call, candidate, bl, o, ob) ==
  LET features == feature_flags(candidate)
      r        == run_criterion_bench(o)
      e1       == <<BenchEntry(call, "candidate", features, o)>>
  IN IF r.raised
     THEN [raised |-> TRUE, exc |-> r.exc, baseline_results |-> bl, runs |-> e1]
     ELSE IF bl = None
     THEN LET rb == run_criterion_bench(ob)
              e2 == e1 \o <<BenchEntry(call, "baseline", <<>>, ob)>>
          IN IF rb.raised
             THEN [raised |-> TRUE, exc |-> rb.exc, baseline_results |-> None,
                   runs |-> e2]
             ELSE [raised |-> FALSE, relative |-> Relative(r.results, rb.results),
                   baseline_results |-> rb.results, runs |-> e2]
     ELSE [raised |-> FALSE, relative |-> Relative(r.results, bl),
           baseline_results |-> bl, runs |-> e1]

(***************************************************************************)
(* Fitness reduction (the same three lines in both strategies).            *)
(***************************************************************************)
hot_paths == <<"set_direct", "get_direct">>

\* hp in k
Contains(hp, k) ==
  \E j \in 1..(Len(k) - Len(hp) + 1) : SubSeq(k, j, j + Len(hp) - 1) = hp

IsHot(k) == \E j \in 1..Len(hot_paths) : Contains(hot_paths[j], k)

\* the keys whose values make up the list `relevant`: every key of the
\* dict that contains a hot path
Relevant(relative) == {k \in DOMAIN relative : IsHot(k)}

RECURSIVE SumOver(_, _)
SumOver(relative, keys) ==
  IF keys = {} THEN QZero
  ELSE LET k == CHOOSE x \in keys : TRUE
       IN QAdd(relative[k], SumOver(relative, keys \ {k}))

\* a variant of avg_improvement: the mean over every benchmark reported,
\* hot path or not
avg_all(relative) ==
  IF DOMAIN relative # {}
  THEN QMul(SumOver(relative, DOMAIN relative), QMake(1, Cardinality(DOMAIN relative)))
  ELSE QInt(1)

\* sum(relevant) / len(relevant) if relevant else 1.0
avg_improvement(relative) ==
  LET relevant == Relevant(relative)
  IN IF relevant # {}
     THEN QMul(SumOver(relative, relevant), QMake(1, Cardinality(relevant)))
     ELSE QInt(1)

(***************************************************************************)
(* State: the evolver's fields, the locals of the strategy call in         *)
(* progress, what the call gave back and wrote, and a record of the        *)
(* external runs and evaluations made (what a test double would observe).  *)
(***************************************************************************)
VARIABLES
  use_criterion,     \* self.use_criterion
  baseline_results,  \* self.criterion_eval._baseline_results
  history,           \* self._history
  best,              \* self._best
  pc,                \* "idle", "incremental" or "combinatorial": the call in progress
  budget,            \* max_combinations of the combinatorial call
  opts,              \* run_incremental: the registry sorted by priority
  candidates,        \* run_combinatorial: the candidates kept
  i,                 \* position of the loop in opts / candidates (from 1)
  current,           \* run_incremental: current
  test,              \* run_incremental: test, as last built
  relative,          \* the dict the last evaluate returned to the loop
  cbest,             \* run_combinatorial: best
  ret,               \* how the last call ended: returned a value, or raised
  snapshots,         \* the code_opt_<timestamp>.json files in results_dir, by name
  script,            \* best_features.sh as last written
  calls,             \* strategy calls started
  direct,            \* calls made of capture_baseline / evaluate from outside
  clock,             \* datetime.now() as last read, in whole seconds
  bench_log,         \* the external benchmark runs made, oldest first
  evals,             \* the evaluate calls of the call in progress, oldest first
  probe              \* the candidates of the flag-order experiment

fields == <<use_criterion, baseline_results, history, best>>
locals == <<pc, budget, opts, candidates, i, current, test, relative, cbest>>
outputs == <<ret, snapshots, script>>
observed == <<calls, direct, clock, bench_log, evals>>
vars == <<fields, locals, outputs, observed, probe>>

Budgets == 0..MaxBudget

\* the budgets of the specification that also hands a negative one
AnyBudgets == (-1)..MaxBudget

\* a variant of InsertByPriority: larger priority numbers first
RECURSIVE InsertByPriorityDesc(_, _)
InsertByPriorityDesc(sorted, o) ==
  IF sorted = <<>> THEN <<o>>
  ELSE IF o.priority > Head(sorted).priority THEN <<o>> \o sorted
  ELSE <<Head(sorted)>> \o InsertByPriorityDesc(Tail(sorted), o)

\* sorted(CODE_OPTIMIZATIONS.values(), key=lambda o: o.priority): stable
RECURSIVE InsertByPriority(_, _)
InsertByPriority(sorted, o) ==
  IF sorted = <<>> THEN <<o>>
  ELSE IF o.priority < Head(sorted).priority THEN <<o>> \o sorted
  ELSE <<Head(sorted)>> \o InsertByPriority(Tail(sorted), o)

RECURSIVE SortByPriority(_, _)
SortByPriority(seq, acc) ==
  IF seq = <<>> THEN acc
  ELSE SortByPriority(Tail(seq), InsertByPriority(acc, Head(seq)))

\* datetime.now(), to the second: not before the reading made last, and
\* followed up to MaxClock
Now(last) == last..Min(last + 1, MaxClock)

\* results_dir / f"code_opt_{timestamp}.json": one name per second
output_file(timestamp) == [code_opt |-> timestamp]

\* output_file.write_text(...): a file of that name is replaced, a new one
\* is added to the directory
write_text(files, name, document) ==
  IF \E j \in 1..Len(files) : files[j].name = name
  THEN [j \in 1..Len(files) |->
          IF files[j].name = name THEN [name |-> name, document |-> document]
          ELSE files[j]]
  ELSE Append(files, [name |-> name, document |-> document])

\* a variant of save_results: the document is built before the last entry
\* was appended
save_stale(b, h, at) ==
  [completed_at   |-> at,
   best_candidate |-> IF b # None THEN to_dict(b) ELSE None,
   best_features  |-> IF b # None THEN feature_flags(b) ELSE <<>>,
   history        |-> SubSeq(h, 1, Len(h) - 1)]

\* _save_results: the JSON document written; at is the second reading of
\* the clock
save_results(b, h, at) ==
  [completed_at   |-> at,
   best_candidate |-> IF b # None THEN to_dict(b) ELSE None,
   best_features  |-> IF b # None THEN feature_flags(b) ELSE <<>>,
   history        |-> h]

\* _save_results: best_features.sh, rewritten only when there is a best;
\* generated is the third reading of the clock
save_script(b, old, generated) ==
  IF b # None
  THEN [features |-> cargo_features(b), fitness |-> b.fitness,
        generated |-> generated]
  ELSE old

\* a variant of Handled: a loop body without its try, nothing is caught
HandlesNothing(exc) == FALSE

\* the classes that derive from BaseException and not from Exception:
\* BaseException itself, its other direct subclasses and
\* asyncio.CancelledError
NotExceptions ==
  {"BaseException", "BaseExceptionGroup", "GeneratorExit", KeyboardInterrupt,
   "SystemExit", "CancelledError"}

\* except Exception as e: the try of a loop body catches every exception
\* that derives from Exception
Handled(exc) == exc \notin NotExceptions

\* how a strategy call ends, or that it has not yet
Running(by) == [kind |-> "running", by |-> by]
Raised(by, exc) == [kind |-> "raised", by |-> by, exc |-> exc]
Returned(by, value) == [kind |-> "returned", by |-> by, value |-> value]

\* what a test double of evaluate would record of one call: for whom, and
\* the dict returned or the exception the call raised
EvalEntry(who, ev) ==
  IF ev.raised THEN [who |-> who, raised |-> TRUE, exc |-> ev.exc]
  ELSE [who |-> who, raised |-> FALSE, relative |-> ev.relative]

(***************************************************************************)
(* run_incremental.                                                        *)
(***************************************************************************)
\* a variant of Accepts: every tested candidate replaces current
AcceptsAny(t, c) == TRUE

\* a variant of Accepts: a tie is accepted too (>= for >)
AcceptsTies(t, c) == QGE(t.fitness, c.fitness)

\* if test.fitness > current.fitness
Accepts(t, c) == QGT(t.fitness, c.fitness)

\* test.fitness = current.fitness * avg_improvement
IncrementalFitness(cur, rel) == QMul(cur, avg_improvement(rel))

\* a variant of MockFitness: the expected gain is taken off (1 - gain)
MockFitnessLoss(cur, opt) == QMul(cur, QMake(1000 - opt.expected_gain, 1000))

\* test.fitness = current.fitness * (1 + opt.expected_gain)
MockFitness(cur, opt) == QMul(cur, QMake(1000 + opt.expected_gain, 1000))

\* the entry of a step that was evaluated; cur is current after the decision
StepEntry(opt, t, cur) ==
  [optimization |-> opt.name, tested_fitness |-> t.fitness,
   accepted |-> QGT(t.fitness, cur.fitness), current_best |-> cur.fitness]

\* the entry of a step whose evaluation raised
ErrorEntry(opt, exc) ==
  [optimization |-> opt.name, error |-> exc]

\* the call up to its loop: sort, baseline candidate, capture_baseline
StartIncremental(o) ==
  /\ pc = "idle"
  /\ LET cap == run_criterion_bench(o)
         cur == [baseline EXCEPT !.fitness = QInt(100)]
     IN /\ calls' = calls + 1
        /\ opts' = SortByPriority(CODE_OPTIMIZATIONS, <<>>)
        /\ bench_log' = IF use_criterion
                        THEN Append(bench_log, BenchEntry(calls + 1, "baseline", <<>>, o))
                        ELSE bench_log
        /\ evals' = <<>>
        /\ test' = None
        /\ relative' = None
        /\ i' = 1
        /\ UNCHANGED <<use_criterion, history, budget, candidates, cbest,
                       snapshots, script, direct, clock, probe>>
        /\ IF use_criterion /\ cap.raised
           THEN \* the exception leaves capture_baseline and run_incremental
                /\ current' = baseline
                /\ pc' = "idle"
                /\ ret' = Raised("run_incremental", cap.exc)
                /\ UNCHANGED <<baseline_results, best>>
           ELSE /\ baseline_results' = IF use_criterion THEN cap.results
                                       ELSE baseline_results
                /\ current' = cur
                /\ best' = cur
                /\ pc' = "incremental"
                /\ ret' = Running("run_incremental")

\* what the loop body sees of the evaluation in mock mode: no call is made
NoEvaluation == [raised |-> FALSE]

\* one iteration of the loop over opts; after the last one, the save and
\* the return.  Each local of the body is bound once, in the order the
\* body assigns it.
IncrementalStep(o, ob) ==
  /\ pc = "incremental"
  /\ \E opt \in {opts[i]} :
     \E t0 \in {Candidate(DictSet(current.enabled, opt.name, TRUE), None,
                          opt.priority + 1)} :
     \E ev \in {IF use_criterion THEN evaluate(calls, t0, baseline_results, o, ob)
                ELSE NoEvaluation} :
     \E t1 \in {IF ev.raised THEN t0
                ELSE [t0 EXCEPT !.fitness =
                        IF use_criterion
                        THEN IncrementalFitness(current.fitness, ev.relative)
                        ELSE MockFitness(current.fitness, opt)]} :
     \E escapes \in {ev.raised /\ ~Handled(ev.exc)} :
     \E accept \in {~ev.raised /\ Accepts(t1, current)} :
     \E cur1 \in {IF accept THEN t1 ELSE current} :
     \E best1 \in {IF accept THEN t1 ELSE best} :
     \E hist1 \in {IF escapes THEN history
                   ELSE Append(history, IF ev.raised THEN ErrorEntry(opt, ev.exc)
                                        ELSE StepEntry(opt, t1, cur1))} :
     \E last \in {~escapes /\ i = Len(opts)} :
     \E timestamp \in (IF last THEN Now(clock) ELSE {clock}) :
     \E at \in (IF last THEN Now(timestamp) ELSE {clock}) :
     \E generated \in (IF last /\ best1 # None THEN Now(at) ELSE {at}) :
        /\ test' = t1
        /\ relative' = IF use_criterion /\ ~ev.raised THEN ev.relative ELSE relative
        /\ current' = cur1
        /\ best' = best1
        /\ history' = hist1
        /\ i' = IF escapes THEN i ELSE i + 1
        /\ baseline_results' = IF use_criterion THEN ev.baseline_results
                               ELSE baseline_results
        /\ bench_log' = IF use_criterion THEN bench_log \o ev.runs ELSE bench_log
        /\ evals' = IF use_criterion THEN Append(evals, EvalEntry(opt.name, ev))
                    ELSE evals
        /\ pc' = IF last \/ escapes THEN "idle" ELSE "incremental"
        /\ ret' = IF escapes THEN Raised("run_incremental", ev.exc)
                  ELSE IF last THEN Returned("run_incremental", best1) ELSE ret
        /\ snapshots' = IF last
                        THEN write_text(snapshots, output_file(timestamp),
                                        save_results(best1, hist1, at))
                        ELSE snapshots
        /\ clock' = generated
        /\ script' = IF last THEN save_script(best1, script, generated) ELSE script
        /\ UNCHANGED <<use_criterion, budget, opts, candidates, cbest, calls,
                       direct, probe>>

(***************************************************************************)
(* run_combinatorial.                                                      *)
(***************************************************************************)
\* [<<x>> \o t for t in seqs]
RECURSIVE Prefixed(_, _)
Prefixed(x, seqs) ==
  IF seqs = <<>> THEN <<>>
  ELSE << <<x>> \o Head(seqs) >> \o Prefixed(x, Tail(seqs))

\* itertools.combinations(seq, r), in the order it yields them
RECURSIVE Combinations(_, _)
Combinations(seq, r) ==
  IF r = 0 THEN << <<>> >>
  ELSE IF Len(seq) < r THEN <<>>
  ELSE Prefixed(Head(seq), Combinations(Tail(seq), r - 1))
         \o Combinations(Tail(seq), r)

\* a variant of EnabledOf: only the names of the combination get a key
RECURSIVE EnabledOfCombo(_, _)
EnabledOfCombo(all_opts, combo) ==
  IF combo = <<>> THEN <<>>
  ELSE <<[name |-> Head(combo), on |-> TRUE]>> \o EnabledOfCombo(all_opts, Tail(combo))

\* enabled = {name: name in combo for name in all_opts}
RECURSIVE EnabledOf(_, _)
EnabledOf(all_opts, combo) ==
  IF all_opts = <<>> THEN <<>>
  ELSE <<[name |-> Head(all_opts),
          on   |-> \E j \in 1..Len(combo) : combo[j] = Head(all_opts)]>>
         \o EnabledOf(Tail(all_opts), combo)

\* for combo in combinations(all_opts, r): candidates.append(...)
RECURSIVE CandidatesOf(_, _)
CandidatesOf(all_opts, combos) ==
  IF combos = <<>> THEN <<>>
  ELSE <<Candidate(EnabledOf(all_opts, Head(combos)), None, 0)>>
         \o CandidatesOf(all_opts, Tail(combos))

\* for r in range(len(all_opts) + 1): the power set, in the order the two
\* loops append it
RECURSIVE CandidatesFrom(_, _)
CandidatesFrom(all_opts, r) ==
  IF r > Len(all_opts) THEN <<>>
  ELSE CandidatesOf(all_opts, Combinations(all_opts, r))
         \o CandidatesFrom(all_opts, r + 1)

PowerSetCandidates == CandidatesFrom(RegistryNames, 0)

\* candidates.sort(key=expected_total_gain, reverse=True): stable, so
\* candidates of equal key keep the order they were appended in
GainKey(c) == expected_total_gain(c).bits

InsertByGain(sorted, c) ==
  LET k == Cardinality({j \in 1..Len(sorted) : ~FLess(GainKey(sorted[j]), GainKey(c))})
  IN SubSeq(sorted, 1, k) \o <<c>> \o SubSeq(sorted, k + 1, Len(sorted))

\* acc is the sorted sequence of the first Len(acc) elements of seq
RECURSIVE SortByGain(_, _)
SortByGain(seq, acc) ==
  IF Len(acc) = Len(seq) THEN acc
  ELSE SortByGain(seq, InsertByGain(acc, seq[Len(acc) + 1]))

SortedCandidates == SortByGain(PowerSetCandidates, <<>>)

\* seq[:m]
Slice(seq, m) ==
  IF m >= 0 THEN SubSeq(seq, 1, Min(m, Len(seq)))
  ELSE SubSeq(seq, 1, Len(seq) + m)

\* cand.fitness = 100.0 * (sum(relevant) / len(relevant) if relevant else 1.0)
CombinatorialFitness(rel) == QMul(QInt(100), avg_improvement(rel))

\* cand.fitness = 100.0 * (1 + cand.expected_total_gain())
MockCombinatorialFitness(c) ==
  QMul(QInt(100), QMake(1000 + expected_total_gain(c).milli, 1000))

\* a variant of Improves: a tie replaces the best too (>= for >)
ImprovesOrTies(c, b) == b = None \/ QGE(c.fitness, b.fitness)

\* if best is None or cand.fitness > best.fitness
Improves(c, b) == b = None \/ QGT(c.fitness, b.fitness)

CombinationEntry(c) ==
  [combination |-> summary(c), fitness |-> c.fitness, enabled |-> c.enabled]

\* the call up to its loop (all of it when no candidate is kept)
StartCombinatorial(max_combinations) ==
  /\ pc = "idle"
  /\ \E kept \in {Slice(SortedCandidates, max_combinations)} :
     \E empty \in {kept = <<>>} :
     \E timestamp \in (IF empty THEN Now(clock) ELSE {clock}) :
     \E at \in (IF empty THEN Now(timestamp) ELSE {clock}) :
        /\ calls' = calls + 1
        /\ budget' = max_combinations
        /\ candidates' = kept
        /\ cbest' = None
        /\ i' = 1
        /\ evals' = <<>>
        /\ relative' = None
        /\ pc' = IF empty THEN "idle" ELSE "combinatorial"
        /\ best' = IF empty THEN None ELSE best
        /\ ret' = IF empty THEN Returned("run_combinatorial", None)
                  ELSE Running("run_combinatorial")
        /\ snapshots' = IF empty
                        THEN write_text(snapshots, output_file(timestamp),
                                        save_results(None, history, at))
                        ELSE snapshots
        /\ clock' = at
        /\ script' = IF empty THEN save_script(None, script, at) ELSE script
        /\ UNCHANGED <<use_criterion, baseline_results, history, opts, current,
                       test, bench_log, direct, probe>>

\* one iteration of the loop over candidates; after the last one, the
\* assignment of self._best, the save and the return
CombinatorialStep(o, ob) ==
  /\ pc = "combinatorial"
  /\ \E cand \in {candidates[i]} :
     \E ev \in {IF use_criterion THEN evaluate(calls, cand, baseline_results, o, ob)
                ELSE NoEvaluation} :
     \E c1 \in {IF ev.raised THEN cand
                ELSE [cand EXCEPT !.fitness =
                        IF use_criterion THEN CombinatorialFitness(ev.relative)
                        ELSE MockCombinatorialFitness(cand)]} :
     \E escapes \in {ev.raised /\ ~Handled(ev.exc)} :
     \E cbest1 \in {IF ~ev.raised /\ Improves(c1, cbest) THEN c1 ELSE cbest} :
     \E hist1 \in {IF ev.raised THEN history
                   ELSE Append(history, CombinationEntry(c1))} :
     \E last \in {~escapes /\ i = Len(candidates)} :
     \E timestamp \in (IF last THEN Now(clock) ELSE {clock}) :
     \E at \in (IF last THEN Now(timestamp) ELSE {clock}) :
     \E generated \in (IF last /\ cbest1 # None THEN Now(at) ELSE {at}) :
        /\ candidates' = [candidates EXCEPT ![i] = c1]
        /\ relative' = IF use_criterion /\ ~ev.raised THEN ev.relative ELSE relative
        /\ cbest' = cbest1
        /\ history' = hist1
        /\ i' = IF escapes THEN i ELSE i + 1
        /\ baseline_results' = IF use_criterion THEN ev.baseline_results
                               ELSE baseline_results
        /\ bench_log' = IF use_criterion THEN bench_log \o ev.runs ELSE bench_log
        /\ evals' = IF use_criterion THEN Append(evals, EvalEntry(summary(cand), ev))
                    ELSE evals
        /\ pc' = IF last \/ escapes THEN "idle" ELSE "combinatorial"
        /\ best' = IF last THEN cbest1 ELSE best
        /\ ret' = IF escapes THEN Raised("run_combinatorial", ev.exc)
                  ELSE IF last THEN Returned("run_combinatorial", cbest1) ELSE ret
        /\ snapshots' = IF last
                        THEN write_text(snapshots, output_file(timestamp),
                                        save_results(cbest1, hist1, at))
                        ELSE snapshots
        /\ clock' = generated
        /\ script' = IF last THEN save_script(cbest1, script, generated) ELSE script
        /\ UNCHANGED <<use_criterion, budget, opts, current, test, calls,
                       direct, probe>>

(***************************************************************************)
(* The evaluator's public methods, called on evolver.criterion_eval by the *)
(* evolver's user between strategy calls.                                  *)
(***************************************************************************)
\* the number a run made outside any strategy call carries in the log
NoCall == 0

\* criterion_eval.capture_baseline()
CaptureBaseline(o) ==
  /\ pc = "idle"
  /\ use_criterion
  /\ direct < MaxDirect
  /\ LET cap == run_criterion_bench(o)
     IN /\ baseline_results' = IF cap.raised THEN baseline_results ELSE cap.results
        /\ ret' = IF cap.raised THEN Raised("capture_baseline", cap.exc)
                  ELSE Returned("capture_baseline", cap.results)
  /\ bench_log' = Append(bench_log, BenchEntry(NoCall, "baseline", <<>>, o))
  /\ direct' = direct + 1
  /\ UNCHANGED <<use_criterion, history, best, locals, snapshots, script,
                 calls, clock, evals, probe>>

\* the candidates handed to evaluate from outside
DirectCandidates == {baseline, all_enabled}

\* criterion_eval.evaluate(candidate)
Evaluate(candidate, o, ob) ==
  /\ pc = "idle"
  /\ use_criterion
  /\ direct < MaxDirect
  /\ LET ev == evaluate(NoCall, candidate, baseline_results, o, ob)
     IN /\ baseline_results' = ev.baseline_results
        /\ bench_log' = bench_log \o ev.runs
        /\ ret' = IF ev.raised THEN Raised("evaluate", ev.exc)
                  ELSE Returned("evaluate", ev.relative)
  /\ direct' = direct + 1
  /\ UNCHANGED <<use_criterion, history, best, locals, snapshots, script,
                 calls, clock, evals, probe>>

(***************************************************************************)
(* Candidates built outside the strategies, from serialized dicts whose    *)
(* enabled map lists the registry's names in some order.                   *)
(***************************************************************************)
RECURSIVE Reverse(_)
Reverse(seq) == IF seq = <<>> THEN <<>> ELSE Reverse(Tail(seq)) \o <<Head(seq)>>

\* the key orders the serialized dicts come in
KeyOrders == {RegistryNames, Reverse(RegistryNames)}

\* the enabled map with the keys in the order of names, on for those in onset
EnabledMap(names, onset) ==
  [j \in 1..Len(names) |-> [name |-> names[j], on |-> names[j] \in onset]]

\* OptimizationCandidate.from_dict({"enabled": ...}) on a first dict
Deserialize(names, onset) ==
  /\ probe = <<>>
  /\ probe' = <<from_dict([enabled |-> EnabledMap(names, onset)])>>
  /\ UNCHANGED <<fields, locals, outputs, observed>>

\* from_dict on a dict with the same entries as the first, keys in the
\* order of names
DeserializeReordered(names) ==
  /\ Len(probe) = 1
  /\ probe' = Append(probe,
       from_dict([enabled |-> EnabledMap(names,
                    {k \in DictKeys(probe[1].enabled) : DictGet(probe[1].enabled, k)}),
                  fitness |-> probe[1].fitness,
                  generation |-> probe[1].generation]))
  /\ UNCHANGED <<fields, locals, outputs, observed>>

(***************************************************************************)
(* The evolver: constructed with use_criterion either way, then any        *)
(* sequence of strategy calls.                                             *)
(***************************************************************************)
Init ==
  /\ use_criterion \in BOOLEAN
  /\ baseline_results = None
  /\ history = <<>>
  /\ best = None
  /\ pc = "idle"
  /\ budget = 0
  /\ opts = <<>>
  /\ candidates = <<>>
  /\ i = 0
  /\ current = None
  /\ test = None
  /\ relative = None
  /\ cbest = None
  /\ ret = [kind |-> "none"]
  /\ snapshots = <<>>
  /\ script = None
  /\ calls = 0
  /\ direct = 0
  /\ clock = 0
  /\ bench_log = <<>>
  /\ evals = <<>>
  /\ probe = <<>>

\* the external runs so far that did not start, were interrupted, timed out
\* or exited non-zero
Faults == Cardinality({j \in 1..Len(bench_log) : bench_log[j].outcome # "ok"})

IsFault(o) == o.kind # "ok"

\* the outcomes the next external run may have
OutcomesAfter(faults) ==
  IF faults < MaxFaults THEN Outcomes ELSE {o \in Outcomes : ~IsFault(o)}

\* the outcome of the baseline run inside evaluate, drawn only when
\* evaluate will make that run
LazyOutcomes(o) ==
  IF use_criterion /\ baseline_results = None
  THEN OutcomesAfter(Faults + (IF IsFault(o) THEN 1 ELSE 0))
  ELSE {o}

(***************************************************************************)
(* Spec: one strategy call on a freshly constructed evolver, as main()     *)
(* makes it; max_combinations is the caller's.                             *)
(***************************************************************************)
Next ==
  \/ \E o \in OutcomesAfter(Faults) : calls = 0 /\ StartIncremental(o)
  \/ \E o \in OutcomesAfter(Faults) : \E ob \in LazyOutcomes(o) : IncrementalStep(o, ob)
  \/ \E b \in Budgets : calls = 0 /\ StartCombinatorial(b)
  \/ \E o \in OutcomesAfter(Faults) : \E ob \in LazyOutcomes(o) : CombinatorialStep(o, ob)

Spec == Init /\ [][Next]_vars

(***************************************************************************)
(* SpecLife: the evolver as a library object, up to MaxRuns strategy calls *)
(* one after the other on the same evolver and evaluator, and between them *)
(* up to MaxDirect calls of the evaluator's own methods.                   *)
(***************************************************************************)
\* the external runs one evaluate call makes at most
EvaluateRuns == IF baseline_results = None THEN 2 ELSE 1

\* n more external runs stay within the runs followed
WithinRuns(n) == Len(bench_log) + n <= MaxBenchRuns

NextLife ==
  \/ \E o \in OutcomesAfter(Faults) :
        calls < MaxRuns /\ WithinRuns(1) /\ StartIncremental(o)
  \/ \E o \in OutcomesAfter(Faults) : \E ob \in LazyOutcomes(o) :
        WithinRuns(EvaluateRuns) /\ IncrementalStep(o, ob)
  \/ \E b \in Budgets : calls < MaxRuns /\ StartCombinatorial(b)
  \/ \E o \in OutcomesAfter(Faults) : \E ob \in LazyOutcomes(o) :
        WithinRuns(EvaluateRuns) /\ CombinatorialStep(o, ob)
  \/ \E o \in OutcomesAfter(Faults) : WithinRuns(1) /\ CaptureBaseline(o)
  \/ \E c \in DirectCandidates : \E o \in OutcomesAfter(Faults) :
        \E ob \in LazyOutcomes(o) : WithinRuns(EvaluateRuns) /\ Evaluate(c, o, ob)

SpecLife == Init /\ [][NextLife]_vars

(***************************************************************************)
(* SpecBudget: the same calls in mock mode (no external runs), with        *)
(* max_combinations also negative.                                         *)
(***************************************************************************)
InitMock == Init /\ ~use_criterion

\* in mock mode no external run is made: its outcome is never looked at
NoRun == [kind |-> "none"]

NextBudget ==
  \/ calls < MaxRuns /\ StartIncremental(NoRun)
  \/ IncrementalStep(NoRun, NoRun)
  \/ \E b \in AnyBudgets : calls < MaxRuns /\ StartCombinatorial(b)
  \/ CombinatorialStep(NoRun, NoRun)

SpecBudget == InitMock /\ [][NextBudget]_vars

(***************************************************************************)
(* SpecFlags: candidates deserialized from dicts in different key orders.  *)
(***************************************************************************)
NextFlags ==
  \/ \E names \in KeyOrders : \E onset \in SUBSET RegistryNameSet :
        Deserialize(names, onset)
  \/ \E names \in KeyOrders : DeserializeReordered(names)

SpecFlags == Init /\ [][NextFlags]_vars

(***************************************************************************)
(* Properties.                                                             *)
(***************************************************************************)
Last(seq) == seq[Len(seq)]

\* the step made one evaluate call (its record is the last of evals')
Evaluates == Len(evals') = Len(evals) + 1

\* the length of the sequence the loop of the call in progress runs over
LoopLength == IF pc = "incremental" THEN Len(opts) ELSE Len(candidates)

FailedEvals == {j \in 1..Len(evals) : evals[j].raised}

ErrorEntries == {j \in 1..Len(history) : "error" \in DOMAIN history[j]}

\* the candidate a history entry is about
EntryName(h) ==
  IF "optimization" \in DOMAIN h THEN h.optimization ELSE h.combination

C1_Step ==
  /\ (pc = "idle" /\ pc' = "incremental") => current'.fitness = QInt(100)
  /\ pc = "incremental" => QGE(current'.fitness, current.fitness)

\* C1: during run_incremental, whatever the evaluations give (any ratios,
\* any failures), current.fitness starts at 100 and after each step is
\* greater than or equal to what it was before the step.
C1_FitnessNeverDecreases == [][C1_Step]_vars

\* a finished run_incremental in which current rose above 100, one
\* evaluation failed and one tested candidate scored below current
C1_Witness ==
  /\ pc = "idle" /\ ret.kind = "returned" /\ ret.by = "run_incremental"
  /\ use_criterion
  /\ QGT(current.fitness, QInt(100))
  /\ FailedEvals # {}
  /\ \E j \in 1..Len(history) :
       /\ "tested_fitness" \in DOMAIN history[j]
       /\ QGT(history[j].current_best, history[j].tested_fitness)

\* the evaluation failed: it raised an Exception (the run timed out or
\* could not be started), as against the user interrupting the program
EvaluationFailed(e) == e.raised /\ e.exc # KeyboardInterrupt

C2_Step ==
  (Evaluates /\ EvaluationFailed(Last(evals'))) =>
     /\ current' = current
     /\ cbest' = cbest
     /\ (pc = "incremental" => best' = best)
     /\ i' = i + 1
     /\ IF i < LoopLength
        THEN pc' = pc /\ snapshots' = snapshots /\ ret' = ret
        ELSE /\ pc' = "idle"
             /\ ret'.kind = "returned"
             /\ ret'.value = (IF pc = "incremental" THEN best ELSE cbest)
             /\ Len(snapshots') = Len(snapshots) + 1
             /\ Last(snapshots').document.best_candidate
                  = (IF ret'.value = None THEN None ELSE to_dict(ret'.value))
             /\ Last(snapshots').document.history = history'

\* a call that returned made one evaluate call per candidate of its loop
C2_AllEvaluated ==
  (pc = "idle" /\ ret.kind = "returned" /\ use_criterion) =>
     Len(evals) = (IF ret.by = "run_incremental" THEN Len(opts) ELSE Len(candidates))

\* C2: in run_incremental and in run_combinatorial, a step whose evaluation
\* fails (raises an Exception: a timeout, a run that cannot be started)
\* leaves current and the running best as they were and does not end the
\* run: the loop moves on to the next candidate, every candidate of the
\* loop gets its evaluate call, and after the last one the results are saved
\* and the running best is returned.
C2_FailureDoesNotAbort == [][C2_Step /\ C2_AllEvaluated']_vars

\* a call that returned although an evaluation failed, with a candidate
\* evaluated after the failed one and a best to return
C2_Witness ==
  /\ pc = "idle" /\ ret.kind = "returned" /\ ret.value # None
  /\ \E j \in FailedEvals : j < Len(evals) /\ ~evals[j + 1].raised

\* C3: after a run of either strategy in which exactly one candidate's
\* evaluation failed, the history holds exactly one entry with an error
\* field, and that entry names the candidate whose evaluation failed.
C3_FailureIsRecorded ==
  (pc = "idle" /\ ret.kind = "returned" /\ Cardinality(FailedEvals) = 1) =>
     \E j \in ErrorEntries :
        /\ ErrorEntries = {j}
        /\ EntryName(history[j]) = evals[CHOOSE k \in FailedEvals : TRUE].who

\* C4: once a baseline run has exited non-zero or timed out, the call is
\* over with the failure raised to the caller, and no external run (so no
\* candidate's test) comes after the failed baseline run.
C4_BaselineFailureIsFatal ==
  \A j \in 1..Len(bench_log) :
     (bench_log[j].what = "baseline"
        /\ bench_log[j].outcome \in {"exit_nonzero", "timeout"}) =>
        (j = Len(bench_log) /\ pc = "idle" /\ ret.kind = "raised")

\* the baseline runs that ended (exit zero or not) and so set the cache
BaselineCaptures ==
  Cardinality({j \in 1..Len(bench_log) :
                 bench_log[j].what = "baseline"
                   /\ bench_log[j].outcome \notin RaisingKinds})

C5_Step ==
  /\ baseline_results # None => baseline_results' = baseline_results
  /\ BaselineCaptures' <= 1

\* C5: over any sequence of strategy calls and of capture_baseline and
\* evaluate calls on one evaluator the baseline is captured at most once,
\* and once captured the cached baseline is never replaced.
C5_BaselineCapturedOnce == [][C5_Step]_vars

\* C6: the dict evaluate returns has a ratio only for benchmarks that the
\* baseline also has; a benchmark of the candidate's run that the baseline
\* lacks is left out.
C6_OnlyBaselineBenchmarks ==
  (relative # None /\ baseline_results # None) =>
     DOMAIN relative \subseteq DOMAIN baseline_results

\* the candidates run_combinatorial has evaluated so far
Evaluated == i - 1

\* C7: for every budget, run_combinatorial evaluates no more candidates than
\* the budget, and those it evaluates are the first of the power set sorted
\* by descending expected_total_gain (ties in enumeration order), all
\* top-budget of them once it has returned.
C7_WithinBudget ==
  (ret.kind \in {"running", "returned"} /\ ret.by = "run_combinatorial") =>
     /\ Evaluated <= budget
     /\ \A j \in 1..Evaluated : candidates[j].enabled = SortedCandidates[j].enabled
     /\ ret.kind = "returned" => Evaluated = Min(budget, Len(SortedCandidates))

\* the two candidates enable the same optimizations
SameEnabled(a, b) ==
  /\ DictKeys(a.enabled) = DictKeys(b.enabled)
  /\ \A k \in DictKeys(a.enabled) : DictGet(a.enabled, k) = DictGet(b.enabled, k)

\* C8: two candidates with the same enabled set, built from inputs in
\* different key orders, have the same feature_flags list and the same
\* cargo_features string.
C8_FlagsIgnoreInputOrder ==
  (Len(probe) = 2 /\ SameEnabled(probe[1], probe[2])) =>
     /\ feature_flags(probe[1]) = feature_flags(probe[2])
     /\ cargo_features(probe[1]) = cargo_features(probe[2])

\* every ratio of the dict is 1.0
AllOnes(e) ==
  ~e.raised /\ \A b \in DOMAIN e.relative : e.relative[b] = QInt(1)

\* a run_incremental that returned with every evaluate having given 1.0
\* for every benchmark
C9_Neutral ==
  /\ pc = "idle" /\ ret.kind = "returned" /\ ret.by = "run_incremental"
  /\ use_criterion
  /\ \A j \in 1..Len(evals) : AllOnes(evals[j])

\* C9: when evaluate gives ratio 1.0 for every benchmark of every candidate,
\* run_incremental accepts nothing: it returns the candidate with every
\* optimization disabled, fitness exactly 100.
C9_NeutralRatiosKeepBaseline ==
  C9_Neutral =>
     /\ ret.value.enabled = baseline.enabled
     /\ ret.value.fitness = QInt(100)
     /\ best = ret.value

\* such a run, with one evaluation per optimization and benchmarks in
\* every dict
C9_Witness ==
  /\ C9_Neutral
  /\ Len(evals) = Len(CODE_OPTIMIZATIONS)
  /\ \A j \in 1..Len(evals) : DOMAIN evals[j].relative # {}

SetBenchmarks(rel) == {b \in DOMAIN rel : Contains("set_direct", b)}

\* the benchmarks that get_direct matches and set_direct does not
GetBenchmarks(rel) ==
  {b \in DOMAIN rel : Contains("get_direct", b) /\ ~Contains("set_direct", b)}

\* ratio 1.2 for exactly the benchmarks matching set_direct (there is one),
\* 1.0 for all others
SetDirectFaster(e) ==
  /\ ~e.raised
  /\ SetBenchmarks(e.relative) # {}
  /\ \A b \in DOMAIN e.relative :
       e.relative[b] = IF Contains("set_direct", b) THEN QMake(6, 5) ELSE QInt(1)

\* an incremental step whose evaluation gave those ratios
C10_Case == pc = "incremental" /\ Evaluates /\ SetDirectFaster(Last(evals'))

\* C10 as stated: such a step is accepted and the new current fitness is
\* exactly 1.2 times the prior one.
C10_ExactlyTwentyPercent ==
  [][C10_Case =>
       /\ current' = test'
       /\ current'.fitness = QMul(current.fitness, QMake(6, 5))]_vars

\* C10, amended: such a step is accepted and the new current fitness is the
\* prior one times the mean ratio over the benchmarks a hot path matches,
\* (6s + 5g) / (5(s + g)) for s benchmarks matching set_direct and g matching
\* get_direct only: exactly 1.2 times when g = 0, less when g > 0.
C10_HotPathMean ==
  [][C10_Case =>
       LET s == Cardinality(SetBenchmarks(Last(evals').relative))
           g == Cardinality(GetBenchmarks(Last(evals').relative))
       IN /\ current' = test'
          /\ best' = test'
          /\ current'.fitness = QMul(current.fitness, QMake(6 * s + 5 * g, 5 * (s + g)))
          /\ g = 0 => current'.fitness = QMul(current.fitness, QMake(6, 5))
          /\ g > 0 => QGT(QMul(current.fitness, QMake(6, 5)), current'.fitness)]_vars

\* two such steps in a row from 100: the first with a get_direct benchmark
\* at 1.0 (to 110), the second with none (to 132)
C10_Witness ==
  /\ ret.kind = "running" /\ ret.by = "run_incremental"
  /\ Len(evals) = 2
  /\ SetDirectFaster(evals[1]) /\ GetBenchmarks(evals[1].relative) # {}
  /\ SetDirectFaster(evals[2]) /\ GetBenchmarks(evals[2].relative) = {}
  /\ current.fitness = QInt(132)

\* the enabled map has each registry name as a key once, and no other key
FullKeys(c) ==
  /\ Len(c.enabled) = Cardinality(RegistryNameSet)
  /\ DictKeys(c.enabled) = RegistryNameSet

\* the candidates a strategy call holds: current, test, both bests, the
\* candidates kept by run_combinatorial and the value returned
HeldCandidates ==
  ({current, test, best, cbest} \ {None})
    \cup {candidates[j] : j \in 1..Len(candidates)}
    \cup (IF ret.kind = "returned" /\ ret.value # None THEN {ret.value} ELSE {})

\* C11: every candidate a strategy constructs, tests, accepts or returns has
\* an enabled map whose keys are exactly the registry's names: none is
\* partial, none has an unknown name.
C11_FullEnabledMaps == \A c \in HeldCandidates : FullKeys(c)

\* a call that returned a candidate with some optimization enabled, after
\* a test candidate or kept candidates were built
C11_Witness ==
  /\ pc = "idle" /\ ret.kind = "returned" /\ ret.value # None
  /\ feature_flags(ret.value) # <<>>
  /\ (test # None \/ candidates # <<>>)

\* a run_combinatorial that returned without having scored any candidate
NoBestFound ==
  /\ pc = "idle" /\ ret.kind = "returned" /\ ret.by = "run_combinatorial"
  /\ \A j \in 1..Len(candidates) : candidates[j].fitness = None

\* C12: a run that found no best candidate (budget 0, or every evaluation
\* failed) returns the baseline candidate, all optimizations disabled, and
\* its snapshot records that candidate as the best.
C12_NoBestMeansBaseline ==
  NoBestFound =>
     /\ ret.value # None
     /\ ret.value.enabled = baseline.enabled
     /\ Last(snapshots).document.best_candidate # None
     /\ Last(snapshots).document.best_candidate.enabled = baseline.enabled
     /\ best # None

\* an incremental step whose evaluation did not fail (it wrote a step entry)
ScoredStep ==
  /\ pc = "incremental"
  /\ Len(history') = Len(history) + 1
  /\ "accepted" \in DOMAIN Last(history')

\* C13: every non-error entry run_incremental writes records the decision
\* taken: accepted is true exactly when the tested candidate replaced
\* current, that is when its fitness was strictly greater than current's
\* before the step.
C13_AcceptedIsTheDecision ==
  [][ScoredStep =>
       /\ Last(history').accepted = QGT(test'.fitness, current.fitness)
       /\ Last(history').accepted = (current' = test')]_vars

\* the optimizations a candidate enables
FlagSet(c) == {k \in DictKeys(c.enabled) : DictGet(c.enabled, k)}

C14_Step ==
  /\ (pc = "idle" /\ pc' = "incremental") => FlagSet(current') = {}
  /\ (pc = "incremental" /\ i' = i + 1) =>
       LET opt      == opts[i].name
           accepted == test'.fitness # None /\ QGT(test'.fitness, current.fitness)
       IN /\ opt \notin FlagSet(current)
          /\ FlagSet(test') = FlagSet(current) \cup {opt}
          /\ FlagSet(current') = FlagSet(current) \cup (IF accepted THEN {opt} ELSE {})
          /\ best' = current'
          /\ pc' = "idle" => ret'.value = current'

\* C14: in run_incremental the optimizations enabled in current, and in the
\* best returned, are exactly those whose step was accepted: each test
\* candidate enables the accepted ones so far plus the one under test, an
\* accepted one stays enabled, a rejected or failed one is enabled neither
\* in current nor in any later test candidate nor in the best returned.
C14_EnabledIffAccepted == [][C14_Step]_vars

\* a finished run_incremental with an accepted step, a rejected step that
\* came after it, and a failed step
C14_Witness ==
  /\ pc = "idle" /\ ret.kind = "returned" /\ ret.by = "run_incremental"
  /\ FailedEvals # {}
  /\ \E j \in 1..Len(history) : \E k \in (j + 1)..Len(history) :
       /\ history[j].optimization \in FlagSet(ret.value)
       /\ "tested_fitness" \in DOMAIN history[k]
       /\ history[k].optimization \notin FlagSet(ret.value)

\* the entries run_incremental has written so far, on a fresh evolver, are
\* about different optimizations, in ascending priority order
TestedInPriorityOrder ==
  /\ \A j \in 1..Len(history) : "optimization" \in DOMAIN history[j]
  /\ \A j \in 1..Len(history) : history[j].optimization \in RegistryNameSet
  /\ \A j \in 1..Len(history) : \A k \in (j + 1)..Len(history) :
       Lookup(history[j].optimization).priority
         < Lookup(history[k].optimization).priority
  /\ use_criterion =>
       /\ Len(evals) = Len(history)
       /\ \A j \in 1..Len(evals) : evals[j].who = history[j].optimization

\* C15: one run_incremental on a fresh evolver tests every registry
\* optimization exactly once, in ascending priority order: the history ends
\* with one entry per optimization, error entries included, in that order.
C15_EachOnceInPriorityOrder ==
  (calls = 1 /\ ret.kind \in {"running", "returned"} /\ ret.by = "run_incremental") =>
     /\ TestedInPriorityOrder
     /\ ret.kind = "returned" =>
          /\ Len(history) = Len(CODE_OPTIMIZATIONS)
          /\ {history[j].optimization : j \in 1..Len(history)} = RegistryNameSet

\* such a run finished, one of its entries an error entry
C15_Witness ==
  /\ calls = 1 /\ pc = "idle" /\ ret.kind = "returned" /\ ret.by = "run_incremental"
  /\ Len(history) = Len(CODE_OPTIMIZATIONS)
  /\ ErrorEntries # {}

\* the candidates of the loop whose evaluation returned
ScoredIdx == {j \in 1..Len(evals) : ~evals[j].raised}

\* the mean of the ratios of the benchmarks matching set_direct or
\* get_direct, 1 when there is none
HotMean(rel) ==
  LET hot == SetBenchmarks(rel) \cup GetBenchmarks(rel)
  IN IF hot = {} THEN QInt(1)
     ELSE QMul(SumOver(rel, hot), QMake(1, Cardinality(hot)))

\* candidate m is the first of the scored candidates with the largest fitness
FirstMaximum(m) ==
  /\ m \in ScoredIdx
  /\ \A k \in ScoredIdx : QGE(candidates[m].fitness, candidates[k].fitness)
  /\ \A k \in ScoredIdx :
       k < m => QGT(candidates[m].fitness, candidates[k].fitness)

C16_Scores ==
  (use_criterion /\ ret.kind \in {"running", "returned"}
     /\ ret.by = "run_combinatorial") =>
     /\ \A j \in ScoredIdx :
          candidates[j].fitness = QMul(QInt(100), HotMean(evals[j].relative))
     /\ IF ScoredIdx = {} THEN cbest = None
        ELSE \E m \in ScoredIdx : FirstMaximum(m) /\ cbest = candidates[m]
     /\ ret.kind = "returned" => (ret.value = cbest /\ best = cbest)

\* C16: run_combinatorial scores every candidate against one baseline, which
\* does not change during the call once captured; each candidate it
\* evaluates gets 100 times the mean hot-path ratio of its own evaluation,
\* whatever the other candidates got; and its best, the one returned, is
\* the scored candidate of largest fitness, the first in evaluation order
\* among equals.
C16_FirstMaximumWins ==
  /\ []C16_Scores
  /\ [][(pc = "combinatorial" /\ baseline_results # None) =>
          baseline_results' = baseline_results]_vars

\* a run that returned the first of two scored candidates of equal fitness
C16_Witness ==
  /\ use_criterion /\ pc = "idle"
  /\ ret.kind = "returned" /\ ret.by = "run_combinatorial"
  /\ ScoredIdx = {1, 2}
  /\ candidates[1].fitness = candidates[2].fitness
  /\ candidates[1].fitness # QInt(100)
  /\ ret.value = candidates[1]

\* the step made a candidate's external run, and it exited non-zero
CandidateRunFailed ==
  \E j \in (Len(bench_log) + 1)..Len(bench_log') :
     bench_log'[j].what = "candidate" /\ bench_log'[j].outcome = "exit_nonzero"

\* C17: a candidate whose external run exits non-zero is a failed
\* evaluation: its step is recorded with an error marker and the candidate
\* gets no fitness (it is not scored as if its ratios were 1.0).
C17_NonZeroExitFailsTheStep ==
  [][CandidateRunFailed =>
       /\ Last(evals').raised
       /\ pc = "incremental" =>
            ("error" \in DOMAIN Last(history') /\ test'.fitness = None)
       /\ pc = "combinatorial" => candidates'[i].fitness = None]_vars

\* C18: whatever the baseline and candidate timings, zeros included, no
\* ratio evaluate emits is zero: each is baseline_time / candidate_time of
\* positive times or the neutral 1.0.
C18_NoZeroRatio ==
  relative # None => \A b \in DOMAIN relative : relative[b] # QZero

\* s is an initial part of t
IsPrefix(s, t) == Len(s) <= Len(t) /\ SubSeq(t, 1, Len(s)) = s

\* the step is the last of a strategy call, which returns
CallReturns ==
  ret'.kind = "returned" /\ (pc # "idle" \/ calls' = calls + 1)

\* no entry of the history is reordered, edited or removed
C19_AppendOnly == IsPrefix(history, history')

\* the step wrote one result file, with the whole history in it: a new
\* file, or in place of the file of the same name; the others are as before
WroteOneSnapshot ==
  \E j \in 1..Len(snapshots') :
     /\ snapshots'[j].document.history = history'
     /\ \A k \in 1..Len(snapshots') \ {j} :
          k <= Len(snapshots) /\ snapshots'[k] = snapshots[k]
     /\ \/ Len(snapshots') = Len(snapshots) + 1 /\ j = Len(snapshots')
        \/ Len(snapshots') = Len(snapshots) /\ snapshots'[j].name = snapshots[j].name

\* C19 as stated: the history is append-only and every strategy call, when
\* over, has written the snapshot exactly once.
C19_OneSnapshotPerRun ==
  [][C19_AppendOnly /\ (pc' = "idle" => Len(snapshots') = calls')]_vars

\* C19, amended: the history is append-only; a strategy call that returns
\* writes the snapshot exactly once, in its last step, after the last
\* candidate's entry, with the whole history in it; a step that does not
\* return (a call still running, or one ended by an exception) writes none.
C19_OneSnapshotPerReturn ==
  [][/\ C19_AppendOnly
     /\ IF CallReturns
        THEN WroteOneSnapshot
        ELSE snapshots' = snapshots]_vars

\* a call that returned with several entries, one of them an error entry,
\* and one snapshot holding them all
C19_Witness ==
  /\ pc = "idle" /\ ret.kind = "returned"
  /\ Len(history) > 1 /\ ErrorEntries # {}
  /\ Len(snapshots) = 1 /\ snapshots[1].document.history = history

\* the names of the first n optimizations run_incremental tests
TestedNames(n) == {opts[j].name : j \in 1..n}

\* 100 compounded with the expected gains of the first n optimizations
RECURSIVE Compounded(_)
Compounded(n) ==
  IF n = 0 THEN QInt(100)
  ELSE QMul(Compounded(n - 1), QMake(1000 + opts[n].expected_gain, 1000))

\* C20: in mock mode neither strategy makes an external run, an evaluate
\* call or a baseline capture; run_incremental accepts every optimization
\* it tests and returns the all-enabled candidate, and run_combinatorial
\* with a budget of at least 1 returns the all-enabled candidate.
C20_MockAcceptsAll ==
  ~use_criterion =>
     /\ bench_log = <<>> /\ evals = <<>> /\ baseline_results = None
     /\ (ret.kind \in {"running", "returned"} /\ ret.by = "run_incremental") =>
          /\ FlagSet(current) = TestedNames(i - 1)
          /\ best = current
          /\ current.fitness = Compounded(i - 1)
     /\ (ret.kind = "returned" /\ ret.by = "run_incremental") =>
          /\ ret.value.enabled = all_enabled.enabled
          /\ ret.value.fitness = Compounded(Len(CODE_OPTIMIZATIONS))
     /\ (ret.kind = "returned" /\ ret.by = "run_combinatorial" /\ budget >= 1) =>
          /\ ret.value # None
          /\ ret.value.enabled = all_enabled.enabled
          /\ ret.value.fitness = QInt(114)

\* a mock run_incremental that returned the all-enabled candidate
C20_Witness ==
  /\ ~use_criterion /\ pc = "idle"
  /\ ret.kind = "returned" /\ ret.by = "run_incremental"
  /\ FlagSet(ret.value) = RegistryNameSet
  /\ Len(history) = Len(CODE_OPTIMIZATIONS)

====
